---- MODULE Spec2Model ----
(***************************************************************************)
(* Model of the Stacker.News YouTube bot (src/bot.js, second script,       *)
(* lines 314-1496): one process per scheduled run, the state file that     *)
(* the runs share, the run pipeline split at its await points, the         *)
(* SIGINT/SIGTERM handlers and the fs.writeFile operations they and the    *)
(* run start.                                                              *)
(***************************************************************************)
EXTENDS Integers, Sequences, FiniteSets, TLC

VARIABLES
  file,            \* content of CONFIG.STATE_FILE on disk
  pc,              \* position of the process: "idle", the await the run is suspended at, "tally", "done", "exited"
  exitCode,        \* exit code of the last process (-1 while none has exited)
  processedPosts,  \* this.processedPosts
  workingQuery,    \* this.workingQuery
  schemaInfo,      \* this.schemaInfo (TRUE when an object is cached)
  isRunning,       \* this.isRunning
  headerSet,       \* the GraphQL client carries the Authorization header
  posts,           \* the list returned by fetchRecentPosts
  i,               \* loop index of run() (1-based)
  k,               \* loop index of findWorkingQuery (1-based)
  pending,         \* processPost's locals across its awaits (rewritten URL)
  counters,        \* processedCount / commentedCount / nostrNotesCount / youtubeLinksFound
  writes,          \* fs.writeFile operations in flight, by writer (0 = run, n = n-th signal)
  signals,         \* number of SIGINT/SIGTERM delivered to this process
  remoteItems,     \* the item list the remote API serves when it is held fixed across runs
  remote,          \* what the remote API answers to each candidate query when that is held fixed
  warm,            \* this run loaded the state saved by a completed pass over remoteItems
  sched,           \* the workflow runs of .github/workflows/bot.yml: clock, jobs, state cache
  link,            \* one call of the link extractor: its arguments and what it returned
  fanout,          \* one call of publishNostrNote followed relay by relay
  hist             \* history of the current run (calls issued, steps taken)

vars == <<file, pc, exitCode, processedPosts, workingQuery, schemaInfo, isRunning,
          headerSet, posts, i, k, pending, counters, writes, signals,
          remoteItems, remote, warm, sched, link, fanout, hist>>

(***************************************************************************)
(* Bounds                                                                  *)
(***************************************************************************)
MaxItems == 2      \* longest item list the remote API returns
MaxSignals == 1    \* signals delivered to one process
MaxSupported == 2  \* the remote API answers candidates 1..MaxSupported with item lists, the others with errors
MaxMinutes == 9    \* minutes of wall-clock time the workflow runs are followed for
MaxDispatch == 1   \* manual workflow_dispatch triggers
MaxTokens == 2     \* longest text given to extractYouTubeId in a call of its own
MaxParams == 2     \* query parameters behind the identifier of a URL given to convertToYewTube
MaxLate == 1       \* relay events that arrive after their publishToRelay promise has settled
MaxReentry == 1    \* calls of run() on the instance after the first, per process

(***************************************************************************)
(* Program constants                                                       *)
(***************************************************************************)
NumCandidates == 9                       \* queryTests.length
YEWTU_BE_BASE == "https://yewtu.be"      \* CONFIG.YEWTU_BE_BASE
YOUTUBE_PATTERNS == <<"watch", "youtu.be", "embed", "v", "shorts">>
CronEvery == 7                           \* cron: '*/7 * * * *'
TimeoutMinutes == 9                      \* timeout-minutes: 9
NOSTR_RELAYS == <<"wss://relay.stacker.news", "wss://relay.damus.io", "wss://nos.lol",
                  "wss://relay.nostr.band", "wss://nostr.wine">>   \* CONFIG.NOSTR_RELAYS

(***************************************************************************)
(* Items.  A text is a sequence of tokens; a token is a plain word, a URL   *)
(* that none of the patterns matches ("playlist") or a YouTube URL of one  *)
(* of the five shapes with its 11-character video id, the query            *)
(* parameters written behind the id and whether it is written with a       *)
(* protocol.  A parameter value is the sequence of its characters as       *)
(* written, a percent escape counting as one.                              *)
(***************************************************************************)
Word == [shape |-> "word", vid |-> "", query |-> << >>, proto |-> FALSE]
Url(shape, vid, query, proto) == [shape |-> shape, vid |-> vid, query |-> query, proto |-> proto]
Param(name, value) == [name |-> name, value |-> value]

VidA == "dQw4w9WgXcQ"
VidB == "9bZkp7q19f0"

Post(id, createdAt, title, text, url) ==
  [id |-> id, createdAt |-> createdAt, title |-> title, text |-> text, url |-> url]

\* {id:"42", text:"see https://youtu.be/dQw4w9WgXcQ"}
PostOne == Post("42", 30, << >>, <<Word, Url("youtu.be", VidA, << >>, TRUE)>>, << >>)
\* title carries a youtu.be link, text a watch link with another id and t=42s
PostTwo == Post("7", 20, <<Url("youtu.be", VidB, << >>, TRUE)>>,
                <<Word, Url("watch", VidA, <<Param("t", <<"4", "2", "s">>)>>, FALSE)>>, << >>)
\* no link
PostNone == Post("3", 10, <<Word>>, <<Word, Word>>, << >>)
\* an element of the response without an identifier
PostNoId == Post("", 40, << >>, <<Url("watch", VidB, << >>, TRUE)>>, << >>)

Posts == {PostOne, PostTwo, PostNone}
Ids == {p.id : p \in Posts}
Responses == UNION {[1..n -> Posts \cup {PostNoId}] : n \in 0..MaxItems}

SeqToSet(s) == {s[n] : n \in 1..Len(s)}
IdsOf(list) == {list[n].id : n \in 1..Len(list)}
SetMin(S) == CHOOSE x \in S : \A y \in S : x <= y

(***************************************************************************)
(* Link extractor                                                          *)
(***************************************************************************)
PatternExec_m(p, text, lastIndex) ==
  LET hits == {n \in (lastIndex + 1)..Len(text) : text[n].shape = YOUTUBE_PATTERNS[p]}
  IN IF hits = {} THEN 0 ELSE CHOOSE n \in hits : \A m \in hits : m <= n

\* pattern.exec(text) with lastIndex: index of the leftmost match after
\* lastIndex, 0 when there is none
PatternExec(p, text, lastIndex) ==
  LET hits == {n \in (lastIndex + 1)..Len(text) : text[n].shape = YOUTUBE_PATTERNS[p]}
  IN IF hits = {} THEN 0 ELSE SetMin(hits)

FirstPattern_m(text) == IF PatternExec(1, text, 0) # 0 THEN 1 ELSE 0

\* the first pattern, in list order, that matches the text (0: none)
FirstPattern(text) ==
  LET ps == {p \in 1..Len(YOUTUBE_PATTERNS) : PatternExec(p, text, 0) # 0}
  IN IF ps = {} THEN 0 ELSE SetMin(ps)

extractYouTubeId_m(text) ==
  LET hits == {n \in 1..Len(text) : text[n].shape # "word"}
  IN IF hits = {} THEN "" ELSE text[SetMin(hits)].vid

\* "" stands for null
extractYouTubeId(text) ==
  IF text = << >> THEN ""
  ELSE IF FirstPattern(text) = 0 THEN ""
  ELSE text[PatternExec(FirstPattern(text), text, 0)].vid

\* `${post.title || ''} ${post.text || ''} ${post.url || ''}`
Content(post) == post.title \o post.text \o post.url

\* match[0] of the second scan: the match ends with the identifier, so the
\* query string behind it is not part of it; 'https://' is prepended when
\* the match does not start with 'http'
originalYouTubeUrl(content) ==
  LET m == content[PatternExec(FirstPattern(content), content, 0)]
  IN [m EXCEPT !.query = << >>, !.proto = TRUE]

\* new URL(originalUrl): throws a TypeError without a protocol
NewURL(originalUrl) == [ok |-> originalUrl.proto, search |-> originalUrl.query]

\* the application/x-www-form-urlencoded parser of URLSearchParams on one
\* character of a value: '+' is a space, a percent escape is its character
Decoded(c) ==
  CASE c = "+" -> " "
    [] c = "%2B" -> "+"
    [] c = "%73" -> "s"
    [] OTHER -> c

PercentDecode(value) == [n \in 1..Len(value) |-> Decoded(value[n])]

\* searchParams.has(name)
Has(search, name) == \E n \in 1..Len(search) : search[n].name = name

\* searchParams.get(name): the decoded value of the first parameter of that name
Get(search, name) ==
  PercentDecode(search[SetMin({n \in 1..Len(search) : search[n].name = name})].value)

\* `${CONFIG.YEWTU_BE_BASE}/watch?v=${videoId}`
Bare(videoId) == [base |-> YEWTU_BE_BASE, v |-> videoId, query |-> << >>]

\* the call ended with an exception instead of a value
Thrown == [base |-> "TypeError", v |-> "", query |-> << >>]

convertToYewTube_m(originalUrl, videoId) ==
  LET url == NewURL(originalUrl)
  IN IF ~url.ok THEN Thrown
     ELSE IF Has(url.search, "t")
       THEN [Bare(videoId) EXCEPT !.query = <<Param("t", Get(url.search, "t"))>>]
       ELSE Bare(videoId)

\* try { new URL(originalUrl) ... } catch { bare URL }
convertToYewTube(originalUrl, videoId) ==
  LET url == NewURL(originalUrl)
  IN IF ~url.ok THEN Bare(videoId)
     ELSE IF Has(url.search, "t")
       THEN [Bare(videoId) EXCEPT !.query = <<Param("t", Get(url.search, "t"))>>]
       ELSE Bare(videoId)

NoLink == [base |-> "", v |-> "", query |-> << >>]

(***************************************************************************)
(* State file.  kind: "absent" (no file), "unreadable" (the path cannot be *)
(* read or written), "empty" (zero bytes), "corrupt" (not JSON), "null"    *)
(* (the JSON value null), "object" (a JSON object with the fields below).  *)
(* A JSON value is a tagged record; sz is the length of the document.      *)
(***************************************************************************)
JArray(S) == [t |-> "array", v |-> S]
JString(S) == [t |-> "string", v |-> S]       \* v: the characters of the string
JNumber == [t |-> "number", v |-> {}]
JUndefined == [t |-> "undefined", v |-> {}]

NullQuery == [t |-> "null", v |-> 0]
Descriptor(n) == [t |-> "descriptor", v |-> n]   \* queryTests[n], selected
GarbageQuery == [t |-> "string", v |-> 0]        \* a truthy value that is no descriptor

FileOf(kind, pp, wq, si, sz) == [kind |-> kind, pp |-> pp, wq |-> wq, si |-> si, sz |-> sz]
Absent == FileOf("absent", JUndefined, NullQuery, FALSE, 0)
Truncated == FileOf("empty", JUndefined, NullQuery, FALSE, 0)
Corrupt(sz) == FileOf("corrupt", JUndefined, NullQuery, FALSE, sz)

\* the files a first run can find: none, an unreadable path, an empty or
\* damaged file, JSON of the wrong shape
InitialFiles ==
  { Absent,
    FileOf("unreadable", JUndefined, NullQuery, FALSE, 0),
    Truncated,
    Corrupt(1),
    FileOf("null", JUndefined, NullQuery, FALSE, 1),
    FileOf("object", JString({"7"}), NullQuery, FALSE, 1),            \* {"processedPosts":"7"}
    FileOf("object", JNumber, NullQuery, FALSE, 1),                   \* {"processedPosts":5}
    FileOf("object", JArray({"3"}), GarbageQuery, FALSE, 1) }         \* {"processedPosts":["3"],"workingQuery":"x"}

Memory(pp, wq, si) == [pp |-> pp, wq |-> wq, si |-> si]

NewSet_m(pp) == {}

\* new Set(state.processedPosts || []): the elements of the array (the
\* characters of a string, nothing for a missing field)
NewSet(pp) == pp.v

loadState_m(f, mem) == mem

\* loadState: the fields of the bot after the call, mem being the fields
\* before it; every exception is caught and leaves the fields as they are
loadState(f, mem) ==
  IF f.kind \in {"absent", "unreadable"} THEN mem          \* fs.readFile rejects
  ELSE IF f.kind \in {"empty", "corrupt"} THEN mem         \* JSON.parse throws
  ELSE IF f.kind = "null" THEN mem                         \* state.processedPosts: TypeError
  ELSE IF f.pp.t = "number" THEN mem                       \* new Set(5): TypeError
  ELSE Memory(NewSet(f.pp), f.wq, f.si)                    \* new Set(x || []), x || null

Snapshot_m(pp, wq, si) ==
  FileOf("object", JArray(pp), NullQuery, si, Cardinality(pp) + (IF si THEN 100 ELSE 0))

\* JSON.stringify(state, null, 2) of saveState
Snapshot(pp, wq, si) ==
  FileOf("object", JArray(pp), wq, si,
         Cardinality(pp) + (IF wq.t = "null" THEN 0 ELSE 10) + (IF si THEN 100 ELSE 0))

\* data written at offset 0 of a file that holds f
Overlay(f, c) == IF c.sz >= f.sz THEN c ELSE Corrupt(f.sz)

(***************************************************************************)
(* Key material                                                            *)
(***************************************************************************)
Envs == {"missing", "empty", "hex", "nsec1", "nsec1-malformed"}

\* the values of NOSTR_PRIVATE_KEY that hold a key
WellFormed(env) == env \in {"hex", "nsec1"}

nsecToHex_m(env) == [ok |-> TRUE, key |-> "hex"]

nsecToHex(env) == [ok |-> env = "nsec1", key |-> "hex"]

getPrivateKey(env) ==
  IF env \in {"missing", "empty"} THEN [ok |-> FALSE, key |-> ""]
  ELSE IF env \in {"nsec1", "nsec1-malformed"} THEN nsecToHex(env)
  ELSE [ok |-> TRUE, key |-> "hex"]

(***************************************************************************)
(* Query prober: what one candidate request can return                     *)
(***************************************************************************)
ProbeResponses ==
  { [kind |-> "error", n |-> 0, sorted |-> TRUE, age |-> 0, span |-> 0],
    [kind |-> "invalid", n |-> 0, sorted |-> TRUE, age |-> 0, span |-> 0],
    [kind |-> "list", n |-> 0, sorted |-> TRUE, age |-> 0, span |-> 0],
    [kind |-> "list", n |-> 1, sorted |-> TRUE, age |-> 30, span |-> 0] }
  \cup { r \in [kind : {"list"}, n : {2}, sorted : BOOLEAN, age : {30, 300, 1000, 2000}, span : {0, 5}] :
           r.span = 0 => r.sorted }

Score_m(r) ==
  (IF r.age < 60 THEN 30 ELSE 0) + (IF r.age < 720 THEN 20 ELSE 0) + (IF r.span > 0 THEN 10 ELSE 0)

\* score += 50 if isRecentFirst, += 30 under an hour, += 20 under 12 hours,
\* += 10 if the list spans some time
Score(r) ==
  (IF r.sorted THEN 50 ELSE 0) + (IF r.age < 60 THEN 30 ELSE 0)
  + (IF r.age < 720 THEN 20 ELSE 0) + (IF r.span > 0 THEN 10 ELSE 0)

Selects_m(r) == r.kind = "list"

\* the candidate is accepted: an item list of more than one item whose score
\* is at least 60, or that is newest first with a newest item under 24 hours
Selects(r) ==
  /\ r.kind = "list"
  /\ r.n > 1
  /\ (Score(r) >= 60 \/ (r.sorted /\ r.age < 1440))

(***************************************************************************)
(* fetchRecentPosts: filter(item => item && item.id), then the stable sort *)
(* by createdAt, newest first                                              *)
(***************************************************************************)
FilterIds_m(s) == s

RECURSIVE FilterIds(_)
FilterIds(s) ==
  IF s = << >> THEN << >>
  ELSE IF Head(s).id = "" THEN FilterIds(Tail(s))
  ELSE <<Head(s)>> \o FilterIds(Tail(s))

RECURSIVE InsertDesc(_, _)
InsertDesc(x, s) ==
  IF s = << >> THEN <<x>>
  ELSE IF Head(s).createdAt >= x.createdAt THEN <<Head(s)>> \o InsertDesc(x, Tail(s))
  ELSE <<x>> \o s

SortDesc_m(s) == s

RECURSIVE SortDesc(_)
SortDesc(s) ==
  IF s = << >> THEN << >>
  ELSE InsertDesc(s[Len(s)], SortDesc(SubSeq(s, 1, Len(s) - 1)))

ItemsOf(resp) == SortDesc(FilterIds(resp))

(***************************************************************************)
(* History of the current run                                              *)
(***************************************************************************)
NoResult == [id |-> "", path |-> "none", ret |-> FALSE]
NoTally == [successful |-> 0, failed |-> 0, total |-> 0]
NoProbe == [kind |-> "none", n |-> 0, sorted |-> TRUE, age |-> 0, span |-> 0]

HistInit ==
  [ saves |-> 0,            \* executions of saveState
    steps |-> << >>,        \* pipeline steps, in the order they started
    commentLog |-> << >>,   \* postComment calls: item and rewritten link
    noteLog |-> << >>,      \* publishNostrNote calls: item
    last |-> NoResult,      \* the last processPost call: item, path taken, value returned
    netUsed |-> FALSE,      \* a remote request was issued
    unauthReq |-> FALSE,    \* a remote request was issued without the header
    authCount |-> 0,        \* executions of authenticateWithNostr
    abort |-> "none",       \* "config", "auth", "exhausted", "save"
    loaded |-> {},          \* processedPosts when the item loop started
    keyOk |-> TRUE,         \* NOSTR_PRIVATE_KEY was set and well-formed
    requested |-> << >>,    \* findWorkingQuery: the candidates requested, in order
    response |-> NoProbe,   \* findWorkingQuery: the response received last
    firstValid |-> 0,       \* findWorkingQuery: the first candidate that returned an item list
    introspected |-> FALSE, \* discoverSchema issued its request
    cached |-> FALSE,       \* loadState read a descriptor from the state file
    fetched |-> "none",     \* fetchRecentPosts: outcome of its request
    order |-> << >>,        \* the items processPost was called with, in order
    sent |-> << >>,         \* postComment: the documents sent for the current item
    tried |-> << >>,        \* postComment: whether each of them succeeded
    created |-> 0,          \* postComment: comments the last call created on the remote side
    held |-> {},            \* the identifiers in the state file when the process started
    acks |-> {},            \* publishNostrNote: the relays that acknowledged before their timeout
    tally |-> NoTally,      \* publishNostrNote: the value it returned for the current item
    again |-> 0,            \* calls of run() on this instance after the first
    sleeps |-> 0 ]          \* executions of sleep(CONFIG.RATE_LIMIT_DELAY)

Request(h, hdr) == [h EXCEPT !.netUsed = TRUE, !.unauthReq = @ \/ ~hdr]
\* makeGraphQLRequest(test.query, test.variables) for queryTests[n]
Probe(h, hdr, n) == [Request(h, hdr) EXCEPT !.requested = Append(@, n)]
Step(h, name) == [h EXCEPT !.steps = Append(@, name)]

\* no workflow run yet; the cache holds no state
SchedInit == [now |-> 0, jobs |-> << >>, fired |-> FALSE, dispatched |-> 0, cache |-> 0]

\* publishToRelay not called for any relay
Relays == SeqToSet(NOSTR_RELAYS)
Unsettled == [state |-> "none", timer |-> FALSE]
NoFanout ==
  [ stage |-> "idle",                        \* "awaiting": at Promise.allSettled; "returned"; "raised"
    attempts |-> [r \in Relays |-> 0],       \* publishToRelay calls per relay
    status |-> [r \in Relays |-> Unsettled], \* the promise of each relay and its timer
    first |-> [r \in Relays |-> "none"],     \* the first thing that happened for each relay
    late |-> 0,                              \* events received for promises already settled
    tally |-> NoTally ]                      \* the value returned

\* the answers of the remote API to the candidate queries are not held fixed
NoRemote == << >>

\* lastIndex of the five regular expression objects when the script is loaded
Fresh == [p \in 1..Len(YOUTUBE_PATTERNS) |-> 0]

\* no pattern matched
NoMatch == [pattern |-> 0, at |-> 0]

\* no call of the link extractor on its own
NoCall == [op |-> "none", text |-> << >>, url |-> Word, videoId |-> "", done |-> FALSE,
           id |-> "", result |-> NoLink,
           lastIndex |-> Fresh,   \* lastIndex of each of YOUTUBE_PATTERNS after the call
           entry |-> Fresh,       \* the same when the call started
           first |-> NoMatch,     \* the match of extractYouTubeId: pattern and position
           second |-> NoMatch,    \* the match of processPost's own scan
           branch |-> "none"]     \* processPost: "noLink", "noUrl" or "found"

NoWrite == [phase |-> "none", content |-> Absent]
NoWrites == [w \in 0..MaxSignals |-> NoWrite]
ZeroCounters == [processedCount |-> 0, commentedCount |-> 0, nostrNotesCount |-> 0, youtubeLinksFound |-> 0]

Init ==
  /\ file \in InitialFiles
  /\ pc = "idle"
  /\ exitCode = -1
  /\ processedPosts = {}
  /\ workingQuery = NullQuery
  /\ schemaInfo = FALSE
  /\ isRunning = FALSE
  /\ headerSet = FALSE
  /\ posts = << >>
  /\ i = 0
  /\ k = 0
  /\ pending = NoLink
  /\ counters = ZeroCounters
  /\ writes = NoWrites
  /\ signals = 0
  /\ remoteItems = << >>
  /\ remote = NoRemote
  /\ warm = FALSE
  /\ sched = SchedInit
  /\ link = NoCall
  /\ fanout = NoFanout
  /\ hist = HistInit

Alive == pc \notin {"idle", "exited", "done"}

ExitCodeOf_m(cause) == IF cause = "kill" THEN 137 ELSE 0

\* the exit code by cause: process.exit(1) in run()'s catch, an unhandled
\* rejection of main or of a signal handler, process.exit(0) in a signal
\* handler, the end of main, a kill from outside
ExitCodeOf(cause) ==
  CASE cause = "catch" -> 1
    [] cause = "unhandled" -> 1
    [] cause = "handler" -> 0
    [] cause = "natural" -> 0
    [] cause = "kill" -> 137

\* process.exit(code), an unhandled rejection or a kill: the process is
\* gone with whatever it had in flight
Exit(code) ==
  /\ pc' = "exited"
  /\ exitCode' = code
  /\ writes' = NoWrites

(***************************************************************************)
(* main: new StackerNewsBot(), the signal handlers, bot.run() up to the    *)
(* read of the state file                                                  *)
(***************************************************************************)
\* the handled set a valid state file holds: the array processedPosts of a
\* JSON object whose workingQuery is null or a descriptor; nothing for any
\* other file
Held(f) ==
  IF f.kind = "object" /\ f.pp.t = "array" /\ f.wq.t \in {"null", "descriptor"} THEN f.pp.v ELSE {}

main(env) ==
  /\ pc \in {"idle", "exited"}
  /\ processedPosts' = {}
  /\ workingQuery' = NullQuery
  /\ schemaInfo' = FALSE
  /\ headerSet' = FALSE
  /\ posts' = << >>
  /\ i' = 0
  /\ k' = 0
  /\ pending' = NoLink
  /\ counters' = ZeroCounters
  /\ signals' = 0
  /\ writes' = NoWrites
  /\ IF getPrivateKey(env).ok
       THEN /\ pc' = "load"
            /\ exitCode' = -1
            /\ isRunning' = TRUE
            /\ hist' = Step([HistInit EXCEPT !.keyOk = WellFormed(env), !.held = Held(file)], "LoadState")
       ELSE \* the constructor throws outside main's try: unhandled rejection
            /\ pc' = "exited"
            /\ exitCode' = ExitCodeOf("unhandled")
            /\ isRunning' = FALSE
            /\ hist' = [HistInit EXCEPT !.abort = "config", !.keyOk = WellFormed(env), !.held = Held(file)]
  /\ UNCHANGED <<file, remoteItems, remote, sched, link, fanout>>

\* the scheduler starts a run
Start ==
  /\ \E env \in Envs : main(env)
  /\ warm' = FALSE

(***************************************************************************)
(* run(): await this.loadState()                                           *)
(***************************************************************************)
runLoadState ==
  /\ pc = "load"
  /\ LET m == loadState(file, Memory(processedPosts, workingQuery, schemaInfo))
     IN /\ processedPosts' = m.pp
        /\ workingQuery' = m.wq
        /\ schemaInfo' = m.si
  /\ pc' = "auth"
  /\ hist' = [hist EXCEPT !.cached = (workingQuery'.t = "descriptor")]
  /\ UNCHANGED <<file, exitCode, isRunning, headerSet, posts, i, k, pending, counters,
                 writes, signals, remoteItems, remote, warm, sched, link, fanout>>

(***************************************************************************)
(* The item loop of run() begins with the list fetchRecentPosts returned;  *)
(* with no item it goes straight to the end-of-run saveState               *)
(***************************************************************************)
runSaveState(pp, wq, si, h) ==
  /\ pc' = "save"
  /\ writes' = [writes EXCEPT ![0] = [phase |-> "pending", content |-> Snapshot(pp, wq, si)]]
  /\ hist' = Step([h EXCEPT !.saves = @ + 1], "SaveState")

runLoop(list, wq, si, h) ==
  /\ posts' = list
  /\ counters' = ZeroCounters
  /\ i' = 1
  /\ LET h1 == Step([h EXCEPT !.loaded = processedPosts], "ProcessItems")
     IN IF list = << >>
          THEN runSaveState(processedPosts, wq, si, h1)
          ELSE /\ pc' = "loop"
               /\ writes' = writes
               /\ hist' = h1

(***************************************************************************)
(* run(): await this.authenticateWithNostr(), then fetchRecentPosts up to  *)
(* its first request; signOk: finalizeEvent returns                        *)
(***************************************************************************)
\* this.client.setHeader('Authorization', ...): the header flag afterwards
setHeader_m(hdr) == hdr
setHeader(hdr) == TRUE

authenticateWithNostr(signOk) ==
  /\ pc = "auth"
  /\ IF ~signOk
       THEN \* run's catch: process.exit(1)
            /\ Exit(ExitCodeOf("catch"))
            /\ hist' = [Step(hist, "Authenticate") EXCEPT !.authCount = @ + 1, !.abort = "auth"]
            /\ UNCHANGED <<headerSet, workingQuery, posts, i, k, counters, schemaInfo>>
       ELSE /\ headerSet' = setHeader(headerSet)
            /\ exitCode' = exitCode
            /\ LET h1 == [Step(hist, "Authenticate") EXCEPT !.authCount = @ + 1]
               IN IF workingQuery.t = "null"
                    THEN \* findWorkingQuery, discoverSchema
                         /\ UNCHANGED <<workingQuery, posts, i, counters, writes, schemaInfo>>
                         /\ IF schemaInfo
                              THEN /\ pc' = "probe"
                                   /\ k' = 1
                                   /\ hist' = Probe(Step(h1, "ResolveQuery"), headerSet', 1)
                              ELSE /\ pc' = "introspect"
                                   /\ k' = 0
                                   /\ hist' = [Request(Step(h1, "ResolveQuery"), headerSet')
                                                 EXCEPT !.introspected = TRUE]
                    ELSE IF workingQuery.t = "descriptor"
                      THEN /\ pc' = "fetch"
                           /\ hist' = Request(Step(h1, "FetchItems"), headerSet')
                           /\ UNCHANGED <<workingQuery, posts, i, k, counters, writes, schemaInfo>>
                      ELSE \* query.slice of undefined throws before the request:
                           \* caught, descriptor reset, empty list
                           /\ workingQuery' = NullQuery
                           /\ k' = k
                           /\ schemaInfo' = schemaInfo
                           /\ runLoop(<< >>, NullQuery, schemaInfo, Step(h1, "FetchItems"))
  /\ UNCHANGED <<file, processedPosts, isRunning, pending, signals, remoteItems, remote, warm, sched, link, fanout>>

(***************************************************************************)
(* discoverSchema: the introspection response arrives; found: the schema   *)
(* has an items field.  findWorkingQuery then sends its first candidate.   *)
(***************************************************************************)
discoverSchema(found) ==
  /\ pc = "introspect"
  /\ schemaInfo' = found
  /\ pc' = "probe"
  /\ k' = 1
  /\ hist' = Probe(hist, headerSet, 1)
  /\ UNCHANGED <<file, exitCode, processedPosts, workingQuery, isRunning, headerSet, posts, i,
                 pending, counters, writes, signals, remoteItems, remote, warm, sched, link, fanout>>

(***************************************************************************)
(* findWorkingQuery: the response to candidate k arrives                   *)
(***************************************************************************)
findWorkingQuery(r) ==
  /\ pc = "probe"
  /\ LET h1 == [hist EXCEPT !.response = r,
                            !.firstValid = IF @ = 0 /\ r.kind = "list" THEN k ELSE @]
     IN IF Selects(r)
       THEN \* this.workingQuery = {...}; back in fetchRecentPosts: the fetch
            /\ workingQuery' = Descriptor(k)
            /\ pc' = "fetch"
            /\ hist' = Request(Step(h1, "FetchItems"), headerSet)
            /\ UNCHANGED <<k, posts, i, counters, writes>>
       ELSE IF k < NumCandidates
         THEN \* sleep(500), next candidate
              /\ k' = k + 1
              /\ pc' = "probe"
              /\ hist' = Probe(h1, headerSet, k + 1)
              /\ UNCHANGED <<workingQuery, posts, i, counters, writes>>
         ELSE \* throw 'No working query found'; fetchRecentPosts catches it
              \* and returns []
              /\ UNCHANGED <<workingQuery, k>>
              /\ runLoop(<< >>, workingQuery, schemaInfo,
                         [h1 EXCEPT !.abort = "exhausted", !.response = NoProbe])
  /\ UNCHANGED <<file, exitCode, processedPosts, schemaInfo, isRunning, headerSet, pending,
                 signals, remoteItems, remote, warm, sched, link, fanout>>

(***************************************************************************)
(* fetchRecentPosts: the response to the working query arrives.            *)
(* kind "error": the request rejects; "invalid": no items.items array;     *)
(* "list": resp is the array                                               *)
(***************************************************************************)
fetchRecentPosts(kind, resp) ==
  /\ pc = "fetch"
  /\ LET h1 == [hist EXCEPT !.fetched = kind, !.response = NoProbe, !.firstValid = 0]
     IN IF kind = "error"
       THEN \* the catch resets the descriptor
            /\ workingQuery' = NullQuery
            /\ runLoop(<< >>, NullQuery, schemaInfo, h1)
       ELSE /\ workingQuery' = workingQuery
            /\ runLoop(IF kind = "list" THEN ItemsOf(resp) ELSE << >>, workingQuery, schemaInfo, h1)
  /\ UNCHANGED <<file, exitCode, processedPosts, schemaInfo, isRunning, headerSet, k, pending,
                 signals, remoteItems, remote, warm, sched, link, fanout>>

(***************************************************************************)
(* run(): processPost(posts[i]) has returned ret by the named path, pp     *)
(* being processedPosts at the return: counters, then the rate-limit       *)
(* sleep and the next item, or the end-of-run saveState                    *)
(***************************************************************************)
\* if (i < posts.length - 1) await this.sleep(CONFIG.RATE_LIMIT_DELAY), i counted from 1
RateLimited_m(n, len) == TRUE
RateLimited(n, len) == n < len

runNext(ret, path, pp, h) ==
  /\ processedPosts' = pp
  /\ counters' = [processedCount |-> counters.processedCount + 1,
                  commentedCount |-> counters.commentedCount + (IF ret THEN 1 ELSE 0),
                  nostrNotesCount |-> counters.nostrNotesCount + (IF ret THEN 1 ELSE 0),
                  youtubeLinksFound |-> counters.youtubeLinksFound + (IF ret THEN 1 ELSE 0)]
  /\ i' = i + 1
  /\ pending' = NoLink
  /\ LET h1 == [h EXCEPT !.last = [id |-> posts[i].id, path |-> path, ret |-> ret],
                         !.sleeps = IF RateLimited(i, Len(posts)) THEN @ + 1 ELSE @,
                         !.acks = {}, !.tally = NoTally]
     IN IF i < Len(posts)
          THEN /\ pc' = "loop"
               /\ writes' = writes
               /\ hist' = h1
          ELSE runSaveState(pp, workingQuery, schemaInfo, h1)

(***************************************************************************)
(* processPost up to its first await: handled check, link extraction,      *)
(* rewrite, first variant of the comment mutation sent                     *)
(***************************************************************************)
\* QUERIES.POST_COMMENT as the names it carries, in the order of the text:
\* the variable declared ($parentId: ID!), the argument of createComment
\* (parentId:), the variable used ($parentId)
POST_COMMENT == <<"parentId", "parentId", "parentId">>

\* String.prototype.replace with a string pattern: the first occurrence only
ReplaceFirst(doc, from, to) ==
  LET hits == {n \in 1..Len(doc) : doc[n] = from}
  IN IF hits = {} THEN doc ELSE [doc EXCEPT ![SetMin(hits)] = to]

\* the document postComment sends after the first one errored
AlternativeDoc == ReplaceFirst(POST_COMMENT, "parentId", "id")

\* a GraphQL server executes a document only if the variable it uses is the
\* one it declares; it answers any other with a validation error
ValidDocument_m(doc) == TRUE
ValidDocument(doc) == doc[1] = doc[3]

Sent(h, doc) == [h EXCEPT !.sent = Append(@, doc)]
Tried(h, ok) == [h EXCEPT !.tried = Append(@, ok)]

\* the remote side executes a createComment mutation it has validated:
\* one more comment exists
Created(h, created) == [h EXCEPT !.created = IF created THEN @ + 1 ELSE @]

Rethrows_m(ok) == FALSE

\* postComment's outer catch: the error of the alternative request is
\* logged and thrown again
Rethrows(ok) == ~ok

\* this.processedPosts.has(post.id)
IsHandled_m(id, pp) == FALSE
IsHandled(id, pp) == id \in pp

\* processPost's catch: this.processedPosts.add(post.id), 'to avoid retry loops'
markFailed_m(pp, id) == pp
markFailed(pp, id) == pp \cup {id}

processPost ==
  /\ pc = "loop"
  /\ LET post == posts[i]
         content == Content(post)
         videoId == extractYouTubeId(content)
         h0 == [hist EXCEPT !.order = Append(@, post.id), !.sent = << >>, !.tried = << >>, !.created = 0]
     IN IF IsHandled(post.id, processedPosts)
          THEN runNext(FALSE, "handled", processedPosts, h0)
          ELSE IF videoId = ""
            THEN runNext(FALSE, "nolink", processedPosts \cup {post.id}, h0)
            ELSE /\ pending' = convertToYewTube(originalYouTubeUrl(content), videoId)
                 /\ pc' = "comment"
                 /\ hist' = Request(Sent([h0 EXCEPT !.commentLog = Append(@, [id |-> post.id, link |-> pending'])],
                                         POST_COMMENT),
                                    headerSet)
                 /\ UNCHANGED <<processedPosts, counters, i, writes>>
  /\ UNCHANGED <<file, exitCode, workingQuery, schemaInfo, isRunning, headerSet, posts, k,
                 signals, remoteItems, remote, warm, sched, link, fanout>>

\* processPost after postComment returned: publishNostrNote signs the note
\* and starts one publishToRelay per relay
publishStart(signOk, h) ==
  IF signOk
    THEN /\ pc' = "publish"
         /\ hist' = [h EXCEPT !.noteLog = Append(@, posts[i].id)]
         /\ UNCHANGED <<processedPosts, counters, i, pending, writes>>
    ELSE \* publishNostrNote rethrows; processPost's catch marks the item
         runNext(FALSE, "publishFailed", markFailed(processedPosts, posts[i].id),
                 [h EXCEPT !.noteLog = Append(@, posts[i].id)])

(***************************************************************************)
(* postComment: the response to the first request arrives                  *)
(***************************************************************************)
postComment(ok, created, signOk) ==
  /\ pc = "comment"
  /\ ok => created
  /\ created => ValidDocument(POST_COMMENT)
  /\ IF ok
       THEN publishStart(signOk, Created(Tried(hist, ok), created))
       ELSE \* the catch sends the alternative document
            /\ pc' = "commentAlt"
            /\ hist' = Request(Sent(Created(Tried(hist, ok), created), AlternativeDoc), headerSet)
            /\ UNCHANGED <<processedPosts, counters, i, pending, writes>>
  /\ UNCHANGED <<file, exitCode, workingQuery, schemaInfo, isRunning, headerSet, posts, k,
                 signals, remoteItems, remote, warm, sched, link, fanout>>

\* postComment: the response to the alternative request arrives
postCommentAlt(ok, created, signOk) ==
  /\ pc = "commentAlt"
  /\ ok => created
  /\ created => ValidDocument(AlternativeDoc)
  /\ IF Rethrows(ok)
       THEN \* processPost's catch marks the item
            runNext(FALSE, "commentFailed", markFailed(processedPosts, posts[i].id),
                    Created(Tried(hist, ok), created))
       ELSE publishStart(signOk, Created(Tried(hist, ok), created))
  /\ UNCHANGED <<file, exitCode, workingQuery, schemaInfo, isRunning, headerSet, posts, k,
                 signals, remoteItems, remote, warm, sched, link, fanout>>

(***************************************************************************)
(* publishNostrNote: every publishToRelay promise has settled, fulfilled   *)
(* for the relays in acks (pub 'ok' before the 10 s timeout), rejected for *)
(* the others (pub 'failed', relay 'error', exception, timeout);           *)
(* Promise.allSettled resolves and the tally is returned                   *)
(***************************************************************************)
\* the sets of acknowledging relays: every subset, and the three the runs
\* under signals are explored with (none, the first three, all)
RelayOutcomes == SUBSET SeqToSet(NOSTR_RELAYS)
SomeOutcomes == {{}, SeqToSet(SubSeq(NOSTR_RELAYS, 1, 3)), SeqToSet(NOSTR_RELAYS)}

Results(acks) ==
  [r \in 1..Len(NOSTR_RELAYS) |-> IF NOSTR_RELAYS[r] \in acks THEN "fulfilled" ELSE "rejected"]

Tally_m(results) ==
  [successful |-> Cardinality({r \in DOMAIN results : results[r] = "fulfilled"}),
   failed |-> 0,
   total |-> Len(NOSTR_RELAYS)]

Tally(results) ==
  [successful |-> Cardinality({r \in DOMAIN results : results[r] = "fulfilled"}),
   failed |-> Cardinality({r \in DOMAIN results : results[r] = "rejected"}),
   total |-> Len(NOSTR_RELAYS)]

publishNostrNote(acks) ==
  /\ pc = "publish"
  /\ pc' = "tally"
  /\ hist' = [hist EXCEPT !.acks = acks, !.tally = Tally(Results(acks))]
  /\ UNCHANGED <<file, exitCode, processedPosts, workingQuery, schemaInfo, isRunning, headerSet,
                 posts, i, k, pending, counters, writes, signals, remoteItems, remote, warm, sched, link, fanout>>

\* processPost with the tally in hand: marks the item and returns true; no
\* await lies between the return of publishNostrNote and the next await of
\* run()
processPostReturn ==
  /\ pc = "tally"
  /\ runNext(TRUE, "published", processedPosts \cup {posts[i].id}, hist)
  /\ UNCHANGED <<file, exitCode, workingQuery, schemaInfo, isRunning, headerSet, posts, k,
                 signals, remoteItems, remote, warm, sched, link, fanout>>

(***************************************************************************)
(* SIGINT / SIGTERM: the handler runs cleanup(), which calls saveState();  *)
(* the handler calls process.exit(0) when that write has completed         *)
(***************************************************************************)
InFlight == {w \in 0..MaxSignals : writes[w].phase # "none"}
ProcessAlive == Alive \/ (pc = "done" /\ InFlight # {})

cleanup ==
  /\ ProcessAlive
  /\ pc # "tally"
  /\ signals < MaxSignals
  /\ signals' = signals + 1
  /\ writes' = [writes EXCEPT ![signals + 1] =
                  [phase |-> "pending", content |-> Snapshot(processedPosts, workingQuery, schemaInfo)]]
  /\ hist' = [hist EXCEPT !.saves = @ + 1]
  /\ UNCHANGED <<file, pc, exitCode, processedPosts, workingQuery, schemaInfo, isRunning, headerSet,
                 posts, i, k, pending, counters, remoteItems, remote, warm, sched, link, fanout>>

(***************************************************************************)
(* fs.writeFile(CONFIG.STATE_FILE, ...) of saveState, step by step: open   *)
(* with truncation, write of the data, completion                          *)
(***************************************************************************)
writeFileOpen(w) ==
  /\ writes[w].phase = "pending"
  /\ IF file.kind = "unreadable"
       THEN \* the write rejects: run's catch exits with 1, the handler's
            \* rejection is unhandled
            /\ Exit(ExitCodeOf(IF w = 0 THEN "catch" ELSE "unhandled"))
            /\ hist' = [hist EXCEPT !.abort = "save"]
            /\ UNCHANGED file
       ELSE /\ file' = Truncated
            /\ writes' = [writes EXCEPT ![w].phase = "open"]
            /\ UNCHANGED <<pc, exitCode, hist>>
  /\ UNCHANGED <<processedPosts, workingQuery, schemaInfo, isRunning, headerSet, posts, i, k,
                 pending, counters, signals, remoteItems, remote, warm, sched, link, fanout>>

writeFileData(w) ==
  /\ writes[w].phase = "open"
  /\ file' = Overlay(file, writes[w].content)
  /\ writes' = [writes EXCEPT ![w].phase = "written"]
  /\ UNCHANGED <<pc, exitCode, processedPosts, workingQuery, schemaInfo, isRunning, headerSet,
                 posts, i, k, pending, counters, signals, remoteItems, remote, warm, sched, link, fanout, hist>>

\* the write of the end-of-run saveState has completed: run() returns
runReturn ==
  /\ writes[0].phase = "written"
  /\ pc' = "done"
  /\ isRunning' = FALSE
  /\ writes' = [writes EXCEPT ![0] = NoWrite]
  /\ UNCHANGED <<file, exitCode, processedPosts, workingQuery, schemaInfo, headerSet, posts, i, k,
                 pending, counters, signals, remoteItems, remote, warm, sched, link, fanout, hist>>

\* the memory of a process that is gone
Gone ==
  /\ processedPosts' = {}
  /\ workingQuery' = NullQuery
  /\ schemaInfo' = FALSE
  /\ isRunning' = FALSE
  /\ headerSet' = FALSE
  /\ posts' = << >>
  /\ i' = 0
  /\ k' = 0
  /\ pending' = NoLink
  /\ counters' = ZeroCounters
  /\ signals' = 0
  /\ hist' = HistInit

\* the write of a handler's saveState has completed: process.exit(0)
handlerExit(w) ==
  /\ w > 0
  /\ writes[w].phase = "written"
  /\ Exit(ExitCodeOf("handler"))
  /\ Gone
  /\ UNCHANGED <<file, remoteItems, remote, warm, sched, link, fanout>>

\* main has returned and nothing is pending: the process ends
naturalExit ==
  /\ pc = "done"
  /\ InFlight = {}
  /\ Exit(ExitCodeOf("natural"))
  /\ UNCHANGED <<file, processedPosts, workingQuery, schemaInfo, isRunning, headerSet, posts, i, k,
                 pending, counters, signals, remoteItems, remote, warm, sched, link, fanout, hist>>

\* the job's timeout (timeout-minutes: 9) kills the process
kill ==
  /\ ProcessAlive
  /\ Exit(ExitCodeOf("kill"))
  /\ Gone
  /\ UNCHANGED <<file, remoteItems, remote, warm, sched, link, fanout>>

Next ==
  \/ Start
  \/ runLoadState
  \/ \E signOk \in BOOLEAN : authenticateWithNostr(signOk)
  \/ \E found \in BOOLEAN : discoverSchema(found)
  \/ \E r \in ProbeResponses : (k > MaxSupported => r.kind # "list") /\ findWorkingQuery(r)
  \/ \E kind \in {"error", "invalid"} : fetchRecentPosts(kind, << >>)
  \/ \E resp \in Responses : fetchRecentPosts("list", resp)
  \/ processPost
  \/ \E ok, created, signOk \in BOOLEAN : postComment(ok, created, signOk)
  \/ \E ok, created, signOk \in BOOLEAN : postCommentAlt(ok, created, signOk)
  \/ \E acks \in SomeOutcomes : publishNostrNote(acks)
  \/ processPostReturn
  \/ cleanup
  \/ \E w \in 0..MaxSignals : writeFileOpen(w)
  \/ \E w \in 0..MaxSignals : writeFileData(w)
  \/ runReturn
  \/ \E w \in 1..MaxSignals : handlerExit(w)
  \/ naturalExit
  \/ kill

Spec == Init /\ [][Next]_vars

(***************************************************************************)
(* Two runs over the same item list: the remote API serves remoteItems in  *)
(* every run, no signal arrives, and a run is warm when the run before it  *)
(* completed its pass over that list and the file holds what it saved.     *)
(***************************************************************************)
PassComplete == pc \in {"save", "done", "exited"} /\ hist.last.path # "none" /\ i = Len(posts) + 1

PassSaved ==
  /\ pc = "exited"
  /\ exitCode = 0
  /\ i = Len(posts) + 1
  /\ posts = ItemsOf(remoteItems)
  /\ file = Snapshot(processedPosts, workingQuery, schemaInfo)

StartAgain ==
  /\ warm' = PassSaved
  /\ \E env \in Envs : main(env)

InitIdem ==
  /\ file = Absent
  /\ pc = "idle"
  /\ exitCode = -1
  /\ processedPosts = {}
  /\ workingQuery = NullQuery
  /\ schemaInfo = FALSE
  /\ isRunning = FALSE
  /\ headerSet = FALSE
  /\ posts = << >>
  /\ i = 0
  /\ k = 0
  /\ pending = NoLink
  /\ counters = ZeroCounters
  /\ writes = NoWrites
  /\ signals = 0
  /\ remoteItems \in Responses
  /\ remote = NoRemote
  /\ warm = FALSE
  /\ sched = SchedInit
  /\ link = NoCall
  /\ fanout = NoFanout
  /\ hist = HistInit

NextIdem ==
  \/ StartAgain
  \/ runLoadState
  \/ \E signOk \in BOOLEAN : authenticateWithNostr(signOk)
  \/ \E found \in BOOLEAN : discoverSchema(found)
  \/ \E r \in ProbeResponses : (k > MaxSupported => r.kind # "list") /\ findWorkingQuery(r)
  \/ \E kind \in {"error", "invalid"} : fetchRecentPosts(kind, << >>)
  \/ fetchRecentPosts("list", remoteItems)
  \/ processPost
  \/ \E ok, created, signOk \in BOOLEAN : postComment(ok, created, signOk)
  \/ \E ok, created, signOk \in BOOLEAN : postCommentAlt(ok, created, signOk)
  \/ \E acks \in RelayOutcomes : publishNostrNote(acks)
  \/ processPostReturn
  \/ writeFileOpen(0)
  \/ writeFileData(0)
  \/ runReturn
  \/ naturalExit

SpecIdem == InitIdem /\ [][NextIdem]_vars


(***************************************************************************)
(* The workflow (.github/workflows/bot.yml).  A workflow run is one job:   *)
(* "restore" (checkout, setup, Restore bot state), "bot" (Run bot: npm     *)
(* start), "save" (Save bot state), then "finished", or "cancelled" by the *)
(* job timeout.  The workflow declares no concurrency group, so a trigger  *)
(* starts its job whatever other jobs are doing.  Time is in minutes.      *)
(***************************************************************************)
Active(job) == job.phase \in {"restore", "bot", "save"}
Overdue(job) == Active(job) /\ sched.now - job.started >= TimeoutMinutes

NewJob(trigger) == [trigger |-> trigger, started |-> sched.now, phase |-> "restore", restored |-> 0]

BotVars == <<file, pc, exitCode, processedPosts, workingQuery, schemaInfo, isRunning, headerSet,
             posts, i, k, pending, counters, writes, signals, remoteItems, remote, warm, link, fanout, hist>>

\* a minute passes; a job that has reached its timeout is cancelled first
tick ==
  /\ sched.now < MaxMinutes
  /\ \A j \in 1..Len(sched.jobs) : ~Overdue(sched.jobs[j])
  /\ sched' = [sched EXCEPT !.now = @ + 1, !.fired = FALSE]
  /\ UNCHANGED BotVars

\* on.schedule: the cron expression matches the minute
schedule ==
  /\ sched.now % CronEvery = 0
  /\ ~sched.fired
  /\ sched' = [sched EXCEPT !.jobs = Append(@, NewJob("schedule")), !.fired = TRUE]
  /\ UNCHANGED BotVars

\* on.workflow_dispatch: somebody starts the workflow by hand
workflow_dispatch ==
  /\ sched.dispatched < MaxDispatch
  /\ sched' = [sched EXCEPT !.jobs = Append(@, NewJob("workflow_dispatch")), !.dispatched = @ + 1]
  /\ UNCHANGED BotVars

\* Restore bot state: the newest cache entry with the prefix bot-state-
restoreState(j) ==
  /\ sched.jobs[j].phase = "restore"
  /\ sched' = [sched EXCEPT !.jobs[j].phase = "bot", !.jobs[j].restored = sched.cache]
  /\ UNCHANGED BotVars

\* Run bot: npm start has ended
runBot(j) ==
  /\ sched.jobs[j].phase = "bot"
  /\ sched' = [sched EXCEPT !.jobs[j].phase = "save"]
  /\ UNCHANGED BotVars

\* Save bot state: a new cache entry under the key of this run
saveCache(j) ==
  /\ sched.jobs[j].phase = "save"
  /\ sched' = [sched EXCEPT !.jobs[j].phase = "finished", !.cache = j]
  /\ UNCHANGED BotVars

\* timeout-minutes: the job is cancelled
timeout(j) ==
  /\ Overdue(sched.jobs[j])
  /\ sched' = [sched EXCEPT !.jobs[j].phase = "cancelled"]
  /\ UNCHANGED BotVars

NextSched ==
  \/ tick
  \/ schedule
  \/ workflow_dispatch
  \/ \E j \in 1..Len(sched.jobs) : restoreState(j)
  \/ \E j \in 1..Len(sched.jobs) : runBot(j)
  \/ \E j \in 1..Len(sched.jobs) : saveCache(j)
  \/ \E j \in 1..Len(sched.jobs) : timeout(j)

\* no bot process is followed here: the state file is the one of a fresh checkout
InitSched == Init /\ file = Absent

SpecSched == InitSched /\ [][NextSched]_vars

(***************************************************************************)
(* The link extractor on its own: one call of extractYouTubeId on a text   *)
(* or of convertToYewTube on a URL and an identifier.                      *)
(***************************************************************************)
Shapes == SeqToSet(YOUTUBE_PATTERNS)
Playlist == Url("playlist", "", << >>, TRUE)      \* https://www.youtube.com/playlist?list=...
Stamped == Url("watch", VidA, <<Param("t", <<"4", "2", "s">>)>>, TRUE)   \* ...watch?v=dQw4w9WgXcQ&t=42s

Tokens ==
  {Word, Playlist, Stamped}
    \cup {Url(shape, vid, << >>, proto) : shape \in Shapes, vid \in {VidA, VidB}, proto \in BOOLEAN}
Texts == UNION {[1..n -> Tokens] : n \in 0..MaxTokens}

\* the values a parameter is written with: none, 42s, 1+2, 1%2B2, 42%73
Values == {<< >>, <<"4", "2", "s">>, <<"1", "+", "2">>, <<"1", "%2B", "2">>, <<"4", "2", "%73">>}
Params == {Param(name, value) : name \in {"t", "list"}, value \in Values}
Queries == UNION {[1..n -> Params] : n \in 0..MaxParams}
Urls == {Url(shape, VidA, query, proto) : shape \in Shapes, query \in Queries, proto \in BOOLEAN}

ExtractCalls == {[NoCall EXCEPT !.op = "extract", !.text = text] : text \in Texts}
ConvertCalls ==
  {[NoCall EXCEPT !.op = "convert", !.url = url, !.videoId = videoId] :
     url \in Urls, videoId \in {VidA, VidB}}

ProgramVars == <<file, pc, exitCode, processedPosts, workingQuery, schemaInfo, isRunning, headerSet,
                 posts, i, k, pending, counters, writes, signals, remoteItems, remote, warm, sched, hist>>

callExtractYouTubeId ==
  /\ link.op = "extract"
  /\ ~link.done
  /\ link' = [link EXCEPT !.done = TRUE, !.id = extractYouTubeId(link.text)]
  /\ UNCHANGED <<ProgramVars, fanout>>

callConvertToYewTube ==
  /\ link.op = "convert"
  /\ ~link.done
  /\ link' = [link EXCEPT !.done = TRUE, !.result = convertToYewTube(link.url, link.videoId)]
  /\ UNCHANGED <<ProgramVars, fanout>>

InitLink ==
  /\ file = Absent
  /\ pc = "idle"
  /\ exitCode = -1
  /\ processedPosts = {}
  /\ workingQuery = NullQuery
  /\ schemaInfo = FALSE
  /\ isRunning = FALSE
  /\ headerSet = FALSE
  /\ posts = << >>
  /\ i = 0
  /\ k = 0
  /\ pending = NoLink
  /\ counters = ZeroCounters
  /\ writes = NoWrites
  /\ signals = 0
  /\ remoteItems = << >>
  /\ remote = NoRemote
  /\ warm = FALSE
  /\ sched = SchedInit
  /\ link \in ExtractCalls \cup ConvertCalls
  /\ fanout = NoFanout
  /\ hist = HistInit

NextLink ==
  \/ callExtractYouTubeId
  \/ callConvertToYewTube

SpecLink == InitLink /\ [][NextLink]_vars

(***************************************************************************)
(* The shared regular expressions.  YOUTUBE_PATTERNS are global objects    *)
(* with the g flag: exec starts at lastIndex and leaves lastIndex behind   *)
(* the match, or at 0 when it finds none.  A sequence of calls of          *)
(* extractYouTubeId and of processPost's two scans over texts, each call   *)
(* starting with the lastIndex values the call before it left behind.      *)
(***************************************************************************)
\* pattern.lastIndex = 0 in extractYouTubeId
ResetExtract_m(lastIndex, p) == lastIndex
ResetExtract(lastIndex, p) == [lastIndex EXCEPT ![p] = 0]

\* pattern.lastIndex = 0 in processPost
ResetScan_m(lastIndex, p) == lastIndex
ResetScan(lastIndex, p) == [lastIndex EXCEPT ![p] = 0]

\* pattern.exec(text) on the shared object YOUTUBE_PATTERNS[p]
Exec(p, text, lastIndex) ==
  LET at == PatternExec(p, text, lastIndex[p])
  IN [at |-> at, lastIndex |-> [lastIndex EXCEPT ![p] = at]]

\* the loop of extractYouTubeId from pattern p on
RECURSIVE extractYouTubeIdFrom(_, _, _)
extractYouTubeIdFrom(p, text, lastIndex) ==
  IF p > Len(YOUTUBE_PATTERNS) THEN [m |-> NoMatch, lastIndex |-> lastIndex]
  ELSE LET e == Exec(p, text, ResetExtract(lastIndex, p))
       IN IF e.at # 0 THEN [m |-> [pattern |-> p, at |-> e.at], lastIndex |-> e.lastIndex]
          ELSE extractYouTubeIdFrom(p + 1, text, e.lastIndex)

\* the loop of processPost that looks for the original URL, from pattern p on
RECURSIVE originalYouTubeUrlFrom(_, _, _)
originalYouTubeUrlFrom(p, content, lastIndex) ==
  IF p > Len(YOUTUBE_PATTERNS) THEN [m |-> NoMatch, lastIndex |-> lastIndex]
  ELSE LET e == Exec(p, content, ResetScan(lastIndex, p))
       IN IF e.at # 0 THEN [m |-> [pattern |-> p, at |-> e.at], lastIndex |-> e.lastIndex]
          ELSE originalYouTubeUrlFrom(p + 1, content, e.lastIndex)

\* match[1] of a match
Group1(text, m) == IF m.at = 0 THEN "" ELSE text[m.at].vid

RegexTokens ==
  {Word, Url("watch", VidA, << >>, TRUE), Url("watch", VidB, << >>, TRUE),
   Url("youtu.be", VidA, << >>, FALSE), Url("shorts", VidB, << >>, TRUE)}
RegexTexts == UNION {[1..n -> RegexTokens] : n \in 0..MaxTokens}

\* a call extractYouTubeId(text); the empty text is the empty string, for
\* which the function returns before it touches a pattern
callExtractShared(text) ==
  /\ LET r == IF text = << >> THEN [m |-> NoMatch, lastIndex |-> link.lastIndex]
              ELSE extractYouTubeIdFrom(1, text, link.lastIndex)
     IN link' = [NoCall EXCEPT !.op = "extract", !.text = text, !.done = TRUE,
                               !.entry = link.lastIndex, !.lastIndex = r.lastIndex,
                               !.first = r.m, !.id = Group1(text, r.m)]
  /\ UNCHANGED <<ProgramVars, fanout>>

\* processPost from the content to the call of convertToYewTube; the
\* content template is never the empty string
callProcessPostScan(content) ==
  /\ LET r == extractYouTubeIdFrom(1, content, link.lastIndex)
         videoId == Group1(content, r.m)
         s == originalYouTubeUrlFrom(1, content, r.lastIndex)
         call == [NoCall EXCEPT !.op = "process", !.text = content, !.done = TRUE,
                                !.entry = link.lastIndex, !.first = r.m, !.id = videoId,
                                !.videoId = videoId]
     IN IF videoId = ""
          THEN link' = [call EXCEPT !.branch = "noLink", !.lastIndex = r.lastIndex]
          ELSE IF s.m.at = 0
            THEN link' = [call EXCEPT !.branch = "noUrl", !.lastIndex = s.lastIndex]
            ELSE LET url == [content[s.m.at] EXCEPT !.query = << >>, !.proto = TRUE]
                 IN link' = [call EXCEPT !.branch = "found", !.lastIndex = s.lastIndex,
                                         !.second = s.m, !.url = url,
                                         !.result = convertToYewTube(url, videoId)]
  /\ UNCHANGED <<ProgramVars, fanout>>

InitRegex ==
  /\ file = Absent
  /\ pc = "idle"
  /\ exitCode = -1
  /\ processedPosts = {}
  /\ workingQuery = NullQuery
  /\ schemaInfo = FALSE
  /\ isRunning = FALSE
  /\ headerSet = FALSE
  /\ posts = << >>
  /\ i = 0
  /\ k = 0
  /\ pending = NoLink
  /\ counters = ZeroCounters
  /\ writes = NoWrites
  /\ signals = 0
  /\ remoteItems = << >>
  /\ remote = NoRemote
  /\ warm = FALSE
  /\ sched = SchedInit
  /\ link = NoCall
  /\ fanout = NoFanout
  /\ hist = HistInit

NextRegex ==
  \/ \E text \in RegexTexts : callExtractShared(text)
  \/ \E content \in RegexTexts : callProcessPostScan(content)

SpecRegex == InitRegex /\ [][NextRegex]_vars

(***************************************************************************)
(* publishNostrNote on its own, relay by relay.  The promise of a relay is *)
(* "pending", "fulfilled" or "rejected"; its timer is armed from the call  *)
(* of publishToRelay until an event handler clears it or it fires.         *)
(***************************************************************************)
publishToRelay_m(throws) ==
  IF throws THEN [state |-> "rejected", timer |-> FALSE]
            ELSE [state |-> "pending", timer |-> FALSE]

\* publishToRelay up to its return: setTimeout, then the try; an exception
\* of ensureRelay, relay.on or relay.publish clears the timer and rejects
publishToRelay(throws) ==
  IF throws THEN [state |-> "rejected", timer |-> FALSE]
            ELSE [state |-> "pending", timer |-> TRUE]

Settle_m(cur, e) ==
  [state |-> IF e = "ok" THEN "fulfilled" ELSE "rejected", timer |-> FALSE]

\* resolve / reject on a promise: only the first call settles it; every
\* handler clears the timer, and a timer that fired is no longer armed
Settle(cur, e) ==
  [state |-> IF cur.state # "pending" THEN cur.state
             ELSE IF e = "ok" THEN "fulfilled" ELSE "rejected",
   timer |-> FALSE]

\* the first thing that happened for relay r
First(f, r, e) == [f EXCEPT !.first[r] = IF @ = "none" THEN e ELSE @]

\* publishNostrNote: finalizeEvent, then CONFIG.NOSTR_RELAYS.map(publishToRelay);
\* throwing: the relays for which the body of publishToRelay throws
publishNostrNoteCall(signOk, throwing) ==
  /\ fanout.stage = "idle"
  /\ IF ~signOk
       THEN fanout' = [fanout EXCEPT !.stage = "raised"]
       ELSE fanout' = [fanout EXCEPT
                         !.stage = "awaiting",
                         !.attempts = [r \in Relays |-> @[r] + 1],
                         !.status = [r \in Relays |-> publishToRelay(r \in throwing)],
                         !.first = [r \in Relays |-> IF r \in throwing THEN "exception" ELSE "none"]]
  /\ UNCHANGED <<ProgramVars, link>>

\* an event of relay r reaches its handler: pub 'ok', pub 'failed', relay 'error'
relayEvent(r, e) ==
  /\ fanout.stage \in {"awaiting", "returned"}
  /\ fanout.first[r] # "exception"
  /\ fanout.status[r].state # "pending" => fanout.late < MaxLate
  /\ fanout' = [First(fanout, r, e) EXCEPT
                  !.status[r] = Settle(@, e),
                  !.late = IF fanout.status[r].state # "pending" THEN @ + 1 ELSE @]
  /\ UNCHANGED <<ProgramVars, link>>

pubOk(r) == relayEvent(r, "ok")
pubFailed(r) == relayEvent(r, "failed")
relayError(r) == relayEvent(r, "error")

\* the 10 s timer of relay r fires
publishTimeout(r) ==
  /\ fanout.stage = "awaiting"
  /\ fanout.status[r].timer
  /\ fanout' = [First(fanout, r, "timeout") EXCEPT !.status[r] = Settle(@, "timeout")]
  /\ UNCHANGED <<ProgramVars, link>>

\* Promise.allSettled resolves: the tally is computed and returned
allSettled ==
  /\ fanout.stage = "awaiting"
  /\ \A r \in Relays : fanout.status[r].state # "pending"
  /\ fanout' = [fanout EXCEPT
                  !.stage = "returned",
                  !.tally = Tally([n \in 1..Len(NOSTR_RELAYS) |-> fanout.status[NOSTR_RELAYS[n]].state])]
  /\ UNCHANGED <<ProgramVars, link>>

InitRelay == Init /\ file = Absent

NextRelay ==
  \/ \E signOk \in BOOLEAN, throwing \in SUBSET Relays : publishNostrNoteCall(signOk, throwing)
  \/ \E r \in Relays : pubOk(r)
  \/ \E r \in Relays : pubFailed(r)
  \/ \E r \in Relays : relayError(r)
  \/ \E r \in Relays : publishTimeout(r)
  \/ allSettled

SpecRelay == InitRelay /\ [][NextRelay]_vars

\* a timer that is armed fires, and Promise.allSettled resolves once every
\* promise has settled
SpecRelayLive ==
  /\ SpecRelay
  /\ \A r \in Relays : WF_vars(publishTimeout(r))
  /\ WF_vars(allSettled)

(***************************************************************************)
(* run() called again on the instance (the class is exported): the call    *)
(* returns at once while a run is in progress, and starts a new run body   *)
(* otherwise.  No signal arrives; the remote API serves remoteItems.       *)
(***************************************************************************)
\* if (this.isRunning) { ... return; }
AlreadyRunning_m(running) == FALSE
AlreadyRunning(running) == running

runAgain ==
  /\ pc \notin {"idle", "exited"}
  /\ hist.again < MaxReentry
  /\ IF AlreadyRunning(isRunning)
       THEN /\ hist' = [hist EXCEPT !.again = @ + 1]
            /\ UNCHANGED <<pc, isRunning, posts, i, k, pending, counters>>
       ELSE \* this.isRunning = true; the body starts with loadState
            /\ isRunning' = TRUE
            /\ pc' = "load"
            /\ posts' = << >>
            /\ i' = 0
            /\ k' = 0
            /\ pending' = NoLink
            /\ counters' = ZeroCounters
            /\ hist' = Step([HistInit EXCEPT !.keyOk = hist.keyOk, !.held = hist.held,
                                             !.again = hist.again + 1], "LoadState")
  /\ UNCHANGED <<file, exitCode, processedPosts, workingQuery, schemaInfo, headerSet, writes,
                 signals, remoteItems, remote, warm, sched, link, fanout>>

NextGuard ==
  \/ Start
  \/ runAgain
  \/ runLoadState
  \/ \E signOk \in BOOLEAN : authenticateWithNostr(signOk)
  \/ \E found \in BOOLEAN : discoverSchema(found)
  \/ \E r \in ProbeResponses : (k > MaxSupported => r.kind # "list") /\ findWorkingQuery(r)
  \/ \E kind \in {"error", "invalid"} : fetchRecentPosts(kind, << >>)
  \/ fetchRecentPosts("list", remoteItems)
  \/ processPost
  \/ \E ok, created, signOk \in BOOLEAN : postComment(ok, created, signOk)
  \/ \E ok, created, signOk \in BOOLEAN : postCommentAlt(ok, created, signOk)
  \/ \E acks \in SomeOutcomes : publishNostrNote(acks)
  \/ processPostReturn
  \/ writeFileOpen(0)
  \/ writeFileData(0)
  \/ runReturn
  \/ naturalExit

SpecGuard == InitIdem /\ [][NextGuard]_vars

(***************************************************************************)
(* The query prober against a remote API whose answer to each candidate    *)
(* query is fixed: remote[n] is the answer to queryTests[n]; the           *)
(* candidates after the first MaxSupported are rejected by the API         *)
(***************************************************************************)
Unsupported == [kind |-> "error", n |-> 0, sorted |-> TRUE, age |-> 0, span |-> 0]
Remote(n) == IF n \in DOMAIN remote THEN remote[n] ELSE Unsupported

InitProbe ==
  /\ file = Absent
  /\ pc = "idle"
  /\ exitCode = -1
  /\ processedPosts = {}
  /\ workingQuery = NullQuery
  /\ schemaInfo = FALSE
  /\ isRunning = FALSE
  /\ headerSet = FALSE
  /\ posts = << >>
  /\ i = 0
  /\ k = 0
  /\ pending = NoLink
  /\ counters = ZeroCounters
  /\ writes = NoWrites
  /\ signals = 0
  /\ remoteItems = << >>
  /\ remote \in [1..MaxSupported -> ProbeResponses]
  /\ warm = FALSE
  /\ sched = SchedInit
  /\ link = NoCall
  /\ fanout = NoFanout
  /\ hist = HistInit

NextProbe ==
  \/ Start
  \/ runLoadState
  \/ \E signOk \in BOOLEAN : authenticateWithNostr(signOk)
  \/ \E found \in BOOLEAN : discoverSchema(found)
  \/ findWorkingQuery(Remote(k))

SpecProbe == InitProbe /\ [][NextProbe]_vars

(***************************************************************************)
(* Properties                                                              *)
(***************************************************************************)
CommentsFor(h, id) == Cardinality({n \in 1..Len(h.commentLog) : h.commentLog[n].id = id})
NotesFor(h, id) == Cardinality({n \in 1..Len(h.noteLog) : h.noteLog[n] = id})
HasLink(post) == \E n \in 1..Len(Content(post)) : Content(post)[n].shape # "word"

\* C1: an identifier that is in processedPosts is never reprocessed while the
\* process lives: no step issues a comment mutation or a note publish for
\* it or takes it out of the set, and processPost on a handled item leaves
\* the set as it is; the set of a later run is the one loaded from the file.
C1_NeverReprocessed ==
  [][ (Alive /\ pc' # "exited") =>
        /\ \A id \in processedPosts :
             /\ CommentsFor(hist', id) = CommentsFor(hist, id)
             /\ NotesFor(hist', id) = NotesFor(hist, id)
             /\ id \in processedPosts'
        /\ (pc = "loop" /\ posts[i].id \in processedPosts) =>
             /\ processedPosts' = processedPosts
             /\ hist'.commentLog = hist.commentLog
             /\ hist'.noteLog = hist.noteLog ]_vars

\* C1 witness: processPost has skipped a link-bearing item whose identifier
\* came from the state file an earlier run saved (with its descriptor)
C1_Witness ==
  /\ hist.last.path = "handled"
  /\ hist.last.id \in hist.loaded
  /\ workingQuery.t = "descriptor"
  /\ "ResolveQuery" \notin SeqToSet(hist.steps)
  /\ \E p \in Posts : p.id = hist.last.id /\ HasLink(p)
  /\ hist.commentLog = << >>

\* C2: a run that loaded the state saved by a completed pass over the item
\* list and passes over the same list makes no postComment call and no
\* publishNostrNote call.
C2_Idempotent ==
  (warm /\ posts = ItemsOf(remoteItems)) => (hist.commentLog = << >> /\ hist.noteLog = << >>)

\* C2 witness: the second pass over a list with a link-bearing item is over
C2_Witness ==
  /\ warm
  /\ pc = "done"
  /\ posts = ItemsOf(remoteItems)
  /\ \E n \in 1..Len(posts) : HasLink(posts[n])
  /\ hist.commentLog = << >>

\* C3: every item processPost has returned for is in processedPosts, on
\* every path; a rejected comment or a failed publish makes processPost
\* return false, and the process does not exit with 1 because of it.
C3_AlwaysMarked ==
  /\ (pc \in {"loop", "comment", "commentAlt", "publish", "tally", "save", "done"}) =>
       \A n \in 1..(i - 1) : posts[n].id \in processedPosts
  /\ hist.last.path \in {"commentFailed", "publishFailed"} =>
       /\ ~hist.last.ret
       /\ hist.last.id \in processedPosts
  /\ (pc = "exited" /\ exitCode = 1) => hist.abort \in {"config", "auth", "save"}

\* C3 witness: the comment on an item was rejected and the loop is at the
\* next item
C3_Witness ==
  /\ pc = "loop"
  /\ hist.last.path = "commentFailed"
  /\ i = 2

\* the comment calls of this run for an item, as a set of log entries
CommentEntries(id) == {n \in 1..Len(hist.commentLog) : hist.commentLog[n].id = id}

\* the identifier of the leftmost match of the first pattern, in priority
\* order, that matches the content
PriorityId(content) ==
  LET shapes == {content[n].shape : n \in 1..Len(content)}
      p == SetMin({q \in 1..Len(YOUTUBE_PATTERNS) : YOUTUBE_PATTERNS[q] \in shapes})
      n == SetMin({m \in 1..Len(content) : content[m].shape = YOUTUBE_PATTERNS[p]})
  IN content[n].vid

\* C4 as stated: after a complete pass, every item that was not handled
\* before it and contains a supported URL with identifier V has exactly one
\* postComment call, whose text carries <alt-domain>/watch?v=V, and is in
\* processedPosts -- for every such V.
C4_EveryUrl ==
  PassComplete =>
    \A n \in 1..Len(posts) :
      \A m \in 1..Len(Content(posts[n])) :
        (posts[n].id \notin hist.loaded /\ Content(posts[n])[m].shape # "word") =>
          /\ Cardinality(CommentEntries(posts[n].id)) = 1
          /\ \A e \in CommentEntries(posts[n].id) :
               /\ hist.commentLog[e].link.base = YEWTU_BE_BASE
               /\ hist.commentLog[e].link.v = Content(posts[n])[m].vid
          /\ posts[n].id \in processedPosts

\* C4 amended: the same, with V the identifier of the leftmost match of the
\* first pattern in priority order that matches the item's content.
C4_EndToEnd ==
  PassComplete =>
    \A n \in 1..Len(posts) :
      (posts[n].id \notin hist.loaded /\ HasLink(posts[n])) =>
        /\ Cardinality(CommentEntries(posts[n].id)) = 1
        /\ \A e \in CommentEntries(posts[n].id) :
             /\ hist.commentLog[e].link.base = YEWTU_BE_BASE
             /\ hist.commentLog[e].link.v = PriorityId(Content(posts[n]))
        /\ posts[n].id \in processedPosts

\* C4 witness: a pass over the item with two different links is complete
C4_Witness ==
  /\ PassComplete
  /\ pc = "done"
  /\ \E n \in 1..Len(posts) : posts[n] = PostTwo /\ PostTwo.id \notin hist.loaded
  /\ \E e \in CommentEntries(PostTwo.id) : hist.commentLog[e].link.v = VidA

\* C5: saveState executes exactly once in a run that is not aborted during
\* setup: never more than once, and once when the run has returned.
C5_SaveOnce ==
  hist.abort \notin {"config", "auth"} =>
    /\ hist.saves <= 1
    /\ (pc = "done" => hist.saves = 1)

HalfWritten == file.kind \in {"empty", "corrupt"}

\* C6: the state file is written atomically: when the process ends after a
\* write of the file has begun, the file it leaves for the next loadState is
\* whole, neither empty nor partially written.
C6_AtomicWrite ==
  [][ (pc # "exited" /\ pc' = "exited" /\ \E w \in InFlight : writes[w].phase \in {"open", "written"})
        => ~HalfWritten' ]_vars

\* a file that is not a state document: missing, unreadable, not JSON, or
\* JSON of the wrong shape
NotAState(f) ==
  \/ f.kind \in {"absent", "unreadable", "empty", "corrupt", "null"}
  \/ f.kind = "object" /\ (f.pp.t \notin {"array", "undefined"} \/ f.wq.t \notin {"null", "descriptor"})

\* C7: loadState on a file that is missing, unreadable, not valid JSON or
\* of the wrong shape leaves an empty handled set and no cached descriptor.
C7_LoadFailsSoft ==
  [][ (pc = "load" /\ pc' = "auth" /\ NotAState(file)) =>
        (processedPosts' = {} /\ workingQuery' = NullQuery) ]_vars

Rank(step) ==
  CASE step = "LoadState" -> 1
    [] step = "Authenticate" -> 2
    [] step = "ResolveQuery" -> 3
    [] step = "FetchItems" -> 4
    [] step = "ProcessItems" -> 5
    [] step = "SaveState" -> 6

\* C9: the steps of a run start in the order LoadState, Authenticate,
\* ResolveQuery, FetchItems, ProcessItems, SaveState; authentication runs
\* at most once, exactly once in a run that issued a request or returned,
\* and no request is issued without the Authorization header; items are
\* processed only after the fetch, and the end-of-run save starts only when
\* every item of the list has been processed.
C9_StepOrder ==
  /\ \A m, n \in 1..Len(hist.steps) : m < n => Rank(hist.steps[m]) < Rank(hist.steps[n])
  /\ hist.authCount <= 1
  /\ ~hist.unauthReq
  /\ (hist.netUsed \/ pc = "done") => (hist.authCount = 1 /\ headerSet)
  /\ (pc \in {"loop", "comment", "commentAlt", "publish", "tally"}) =>
       ("FetchItems" \in SeqToSet(hist.steps) /\ "ProcessItems" \in SeqToSet(hist.steps))
  /\ "SaveState" \in SeqToSet(hist.steps) =>
       (i = Len(posts) + 1 /\ counters.processedCount = Len(posts))

\* C9 witness: a run that probed, fetched, commented and saved has returned
C9_Witness ==
  /\ pc = "done"
  /\ hist.steps = <<"LoadState", "Authenticate", "ResolveQuery", "FetchItems", "ProcessItems", "SaveState">>
  /\ hist.commentLog # << >>

\* C10: with the signing key missing or malformed the process has ended
\* with a failure, having issued no request and started no write of the
\* state file.
C10_ConfigFatal ==
  ~hist.keyOk =>
    /\ pc = "exited"
    /\ exitCode = 1
    /\ ~hist.netUsed
    /\ hist.saves = 0
    /\ InFlight = {}

\* C10 witness: a process started with a bad key has ended, the file as it was
C10_Witness ==
  /\ ~hist.keyOk
  /\ pc = "exited"
  /\ hist.abort = "config"
  /\ file \in InitialFiles

\* a step in which findWorkingQuery receives the response to candidate k
ProbeAnswered == pc = "probe" /\ pc' # "exited" /\ (pc' # "probe" \/ k' # k)

C13_RaisesIffNoneValid ==
  hist.abort = "exhausted" => (hist.firstValid = 0 /\ workingQuery = NullQuery)

\* C14: after a fetch with the cached descriptor that failed -- the request
\* errored or the response held no item list -- the descriptor is cleared,
\* no item is processed, the handled set is as loaded and the end-of-run
\* save writes workingQuery null.
C14_FailedFetchClears ==
  (hist.cached /\ hist.fetched \in {"error", "invalid"}) =>
    /\ workingQuery = NullQuery
    /\ posts = << >>
    /\ processedPosts = hist.loaded
    /\ writes[0].phase # "none" => writes[0].content.wq = NullQuery

\* the number of times x occurs in the list
Count(list, x) == Cardinality({n \in 1..Len(list) : list[n] = x})
InItem == pc \in {"comment", "commentAlt", "publish", "tally"}

\* C15 as stated: the items are processed one after the other in the order
\* in which the remote API returned them.
C15_ReceivedOrder ==
  hist.fetched = "list" =>
    /\ posts = FilterIds(remoteItems)
    /\ hist.order = [n \in 1..Len(hist.order) |-> posts[n].id]

\* C15 amended: the items are processed one after the other, each one
\* completely before the next begins, in the order of the list that
\* fetchRecentPosts returns: the received elements that have an identifier,
\* newest createdAt first.
C15_SortedOrder ==
  /\ hist.fetched = "list" =>
       /\ \A p \in Posts : Count(posts, p) = Count(remoteItems, p)
       /\ \A n \in 1..Len(posts) : posts[n].id # ""
       /\ \A m, n \in 1..Len(posts) : m < n => posts[m].createdAt >= posts[n].createdAt
  /\ hist.order = [n \in 1..Len(hist.order) |-> posts[n].id]
  /\ Len(hist.order) = (IF InItem THEN i ELSE IF i = 0 THEN 0 ELSE i - 1)
  /\ InItem =>
       /\ hist.commentLog[Len(hist.commentLog)].id = posts[i].id
       /\ \A n \in 1..Len(hist.noteLog) : hist.noteLog[n] \in {posts[m].id : m \in 1..i}
       /\ i > 1 => hist.last.id = posts[i - 1].id

\* C15 witness: the remote API returned the older item first; the newer one
\* was processed first
C15_Witness ==
  /\ pc = "done"
  /\ remoteItems = <<PostNone, PostOne>>
  /\ hist.order = <<PostOne.id, PostNone.id>>
  /\ hist.commentLog # << >>

\* C16: for a list of n items the loop sleeps max(n-1, 0) times: once after
\* each item except the last, whatever path processPost took, and not
\* between the last item and the end-of-run save.
C16_DelayCount ==
  /\ []((pc \in {"loop", "comment", "commentAlt", "publish", "tally"}) => hist.sleeps = i - 1)
  /\ []((pc \in {"save", "done"}) =>
          hist.sleeps = (IF Len(posts) = 0 THEN 0 ELSE Len(posts) - 1))
  /\ [][ (pc # "save" /\ pc' = "save") => hist'.sleeps = hist.sleeps ]_vars
  /\ [][ (pc' = "loop" /\ i' = i + 1 /\ i >= 1) => hist'.sleeps = hist.sleeps + 1 ]_vars

\* C16 witness: the first of two items had no link, the second was already
\* handled; the loop slept once and the run has returned
C16_Witness ==
  /\ pc = "done"
  /\ Len(posts) = 2
  /\ hist.sleeps = 1
  /\ ~HasLink(posts[1])
  /\ hist.last.path = "handled"

\* a step in which processPost returns for item i
ItemReturns == pc \in {"loop", "comment", "commentAlt", "tally"} /\ i' = i + 1

\* C17: postComment sends the parentId variant first and the id variant
\* only after the first errored; it raises only when both variants -- the
\* mutation with the argument parentId, then the mutation with the argument
\* id -- were sent and both errored, and otherwise returns the response of
\* the first that succeeded.
C17_BothVariants ==
  /\ [](pc = "comment" => (hist.sent = <<POST_COMMENT>> /\ hist.tried = << >>))
  /\ [](pc = "commentAlt" => (Len(hist.sent) = 2 /\ hist.tried = <<FALSE>>))
  /\ []((pc \in {"publish", "tally"}) => hist.tried \in {<<TRUE>>, <<FALSE, TRUE>>})
  /\ [][ (ItemReturns /\ hist'.last.path = "commentFailed") =>
           /\ Len(hist.sent) = 2
           /\ hist.sent[1][2] = "parentId"
           /\ hist.sent[2][2] = "id"
           /\ ValidDocument(hist.sent[2]) ]_vars

\* C18: publishNostrNote returns {successful, failed, total} with
\* successful + failed = total = the number of configured relays and
\* successful = the number of relays that acknowledged before their
\* timeout; relay rejections, errors and timeouts never make it raise.
C18_Tally ==
  /\ [](pc = "tally" =>
          /\ hist.tally.successful + hist.tally.failed = hist.tally.total
          /\ hist.tally.total = Len(NOSTR_RELAYS)
          /\ hist.tally.successful = Cardinality(hist.acks)
          /\ hist.acks \subseteq SeqToSet(NOSTR_RELAYS))
  /\ [][ (pc = "publish" /\ pc' \notin {"publish", "exited"}) => pc' = "tally" ]_vars
  /\ [][ (pc = "tally" /\ ItemReturns) => (hist'.last.path = "published" /\ hist'.last.ret) ]_vars

\* C18 witness: two of the five relays did not acknowledge: 3 / 2 / 5
C18_Witness ==
  /\ pc = "tally"
  /\ hist.tally = [successful |-> 3, failed |-> 2, total |-> 5]

\* C19: processPost returns true for an item, and run() counts a published
\* note for it, only if at least one relay accepted the note.
C19_OneRelayAccepts ==
  [][ (ItemReturns /\ hist'.last.ret) =>
        (hist.tally.successful >= 1
         /\ counters'.nostrNotesCount = counters.nostrNotesCount + 1) ]_vars

\* C20: at most one workflow run is between its state restore and the end
\* of its state save at any time.
C20_SingleRun ==
  Cardinality({j \in 1..Len(sched.jobs) : Active(sched.jobs[j])}) <= 1

\* the URL that processPost found in the item it is at: the leftmost match
\* of the first pattern that matches its content
FoundUrl == Content(posts[i])[PatternExec(FirstPattern(Content(posts[i])), Content(posts[i]), 0)]

\* the t= value as it is written in the URL
Written(query) == query[SetMin({n \in 1..Len(query) : query[n].name = "t"})].value

\* C21: when the URL found in an item carries a t= parameter, the rewritten
\* URL in the comment and in the note carries the same t= value.
C21_TimestampKept ==
  (InItem /\ Has(FoundUrl.query, "t")) =>
    /\ pending.query = <<Param("t", Written(FoundUrl.query))>>
    /\ hist.commentLog[Len(hist.commentLog)].link = pending

ConvertDone == link.op = "convert" /\ link.done
ExtractDone == link.op = "extract" /\ link.done

\* C22: for a URL that parses, convertToYewTube returns
\* <alt-domain>/watch?v=<videoId> followed by &t=<value>, the value as it is
\* written in the original, exactly when the original has a t parameter,
\* and the bare URL when it has none; no other parameter is carried over.
C22_TimestampVerbatim ==
  (ConvertDone /\ link.url.proto) =>
    link.result = IF \E n \in 1..Len(link.url.query) : link.url.query[n].name = "t"
                    THEN [base |-> YEWTU_BE_BASE, v |-> link.videoId,
                          query |-> <<Param("t", Written(link.url.query))>>]
                    ELSE [base |-> YEWTU_BE_BASE, v |-> link.videoId, query |-> << >>]

UrlsIn(text) == {n \in 1..Len(text) : text[n].shape \in SeqToSet(YOUTUBE_PATTERNS)}

\* C24: extractYouTubeId returns null for an empty text and for a text with
\* no URL of a supported shape; for a text with such a URL, of whichever of
\* the five shapes and with or without a protocol, it returns the
\* identifier of a URL of the text -- of the only one when there is one.
C24_ExtractsId ==
  ExtractDone =>
    /\ UrlsIn(link.text) = {} => link.id = ""
    /\ UrlsIn(link.text) # {} => \E n \in UrlsIn(link.text) : link.id = link.text[n].vid
    /\ \A shape \in SeqToSet(YOUTUBE_PATTERNS), vid \in {VidA, VidB} :
         (\E n \in UrlsIn(link.text) :
            /\ link.text[n].shape = shape
            /\ link.text[n].vid = vid
            /\ UrlsIn(link.text) = {n}) => link.id = vid

\* C24 witness: the identifier of a shorts URL written without a protocol
\* behind a word was returned
C24_Witness ==
  /\ ExtractDone
  /\ link.text = <<Word, Url("shorts", VidB, << >>, FALSE)>>
  /\ link.id = VidB

\* a step that starts a write of the state file, by writer w
SaveStarts(w) == writes[w].phase = "none" /\ writes'[w].phase = "pending"

\* C25: whenever a write of the state file starts -- at the end of the run
\* or in a signal handler -- every item whose comment mutation has
\* succeeded (the items publishNostrNote was called for) is in the
\* processedPosts that is written.
C25_CommentedSaved ==
  [][ \A w \in 0..MaxSignals :
        SaveStarts(w) => SeqToSet(hist.noteLog) \subseteq writes'[w].content.pp.v ]_vars

\* C26: no step of a live process takes an identifier out of
\* processedPosts, and every write of the state file holds every
\* identifier the state file held when the process started.
C26_NeverShrinks ==
  /\ [][ (Alive /\ pc' # "exited") => processedPosts \subseteq processedPosts' ]_vars
  /\ [](\A w \in 0..MaxSignals :
          writes[w].phase # "none" => hist.held \subseteq writes[w].content.pp.v)

\* C27: a postComment call is made only by processPost on an item that is
\* not handled and has a link; a publishNostrNote call is made only when
\* the postComment call for the same item has succeeded; an item without a
\* link or already handled causes neither, and an item whose comment was
\* rejected has no note.
C27_GuardedWrites ==
  /\ [][ (hist'.commentLog # hist.commentLog /\ hist'.commentLog # << >>) =>
           /\ pc = "loop"
           /\ posts[i].id \notin processedPosts
           /\ HasLink(posts[i])
           /\ hist'.commentLog = Append(hist.commentLog, [id |-> posts[i].id, link |-> pending']) ]_vars
  /\ [][ (hist'.noteLog # hist.noteLog /\ hist'.noteLog # << >>) =>
           /\ pc \in {"comment", "commentAlt"}
           /\ hist'.tried # << >>
           /\ hist'.tried[Len(hist'.tried)]
           /\ hist.commentLog[Len(hist.commentLog)].id = posts[i].id
           /\ hist'.noteLog = Append(hist.noteLog, posts[i].id) ]_vars
  /\ [][ (ItemReturns /\ hist'.last.path \in {"nolink", "handled", "commentFailed"}) =>
           (hist'.commentLog = hist.commentLog /\ hist'.noteLog = hist.noteLog) ]_vars
  /\ [](hist.last.path = "commentFailed" => hist.last.id \notin SeqToSet(hist.noteLog))

\* C27 witness: the comment on the first item was rejected, the second item
\* had no link; the run has returned with one postComment call and no note
C27_Witness ==
  /\ pc = "done"
  /\ posts = <<PostOne, PostNone>>
  /\ hist.loaded = {}
  /\ Len(hist.commentLog) = 1
  /\ hist.commentLog[1].id = PostOne.id
  /\ hist.noteLog = << >>
  /\ processedPosts = {PostOne.id, PostNone.id}

\* C28: one postComment call creates at most one comment on the remote
\* side, also when the first request is reported as failed and the
\* alternative is sent; a call that returns has created exactly one.
C28_OneWrite ==
  /\ hist.created <= 1
  /\ Len(hist.sent) <= 2
  /\ pc \in {"publish", "tally"} => hist.created = 1

\* C28 witness: the first request created the comment but was reported as
\* failed, the alternative was sent and failed, and postComment raised
C28_Witness ==
  /\ hist.last.path = "commentFailed"
  /\ hist.tried = <<FALSE, FALSE>>
  /\ Len(hist.sent) = 2
  /\ hist.created = 1

Succeeded == {r \in Relays : fanout.first[r] = "ok"}
Failed == {r \in Relays : fanout.first[r] \in {"failed", "error", "timeout", "exception"}}

\* C29: in one publishNostrNote call every configured relay gets exactly
\* one publishToRelay call, all of them made before the join is awaited;
\* once the promise of a relay has settled nothing changes it, a step
\* changes the promise of one relay at most, and the tally counts every
\* relay once: as succeeded when the first thing that happened for it was
\* ok, as failed when it was failed, error, an exception or the timeout.
C29_FanOut ==
  /\ [](fanout.stage \in {"awaiting", "returned"} =>
          \A r \in Relays : fanout.attempts[r] = 1 /\ fanout.status[r].state # "none")
  /\ [][ fanout.stage \in {"awaiting", "returned"} =>
           /\ fanout'.attempts = fanout.attempts
           /\ \A r \in Relays :
                fanout.status[r].state # "pending" => fanout'.status[r].state = fanout.status[r].state
           /\ Cardinality({r \in Relays : fanout'.status[r] # fanout.status[r]}) <= 1 ]_vars
  /\ [](fanout.stage = "returned" =>
          /\ Succeeded \cup Failed = Relays
          /\ fanout.tally.successful = Cardinality(Succeeded)
          /\ fanout.tally.failed = Cardinality(Failed)
          /\ \A r \in Relays : fanout.status[r].state = (IF r \in Succeeded THEN "fulfilled" ELSE "rejected"))

\* C29 witness: the call has returned 1 / 4 / 5 after one relay threw, one
\* answered ok, one failed, one errored and one timed out, and an event
\* arrived late for the relay that had answered ok
C29_Witness ==
  /\ fanout.stage = "returned"
  /\ fanout.tally = [successful |-> 1, failed |-> 4, total |-> 5]
  /\ {fanout.first[r] : r \in Relays} = {"ok", "failed", "error", "timeout", "exception"}
  /\ fanout.late = 1

\* C30: a publishNostrNote call that has started its publishToRelay calls
\* returns a tally: every promise settles, by an event, an exception or its
\* timer, and the join completes -- also when no relay answers.
C30_Terminates ==
  (fanout.stage = "awaiting") ~> (fanout.stage = "returned" /\ fanout.tally.total = Len(NOSTR_RELAYS))

\* C30 witness: no relay answered; every promise was rejected by its timer
\* and the call has returned 0 / 5 / 5
C30_Witness ==
  /\ fanout.stage = "returned"
  /\ \A r \in Relays : fanout.first[r] = "timeout"
  /\ fanout.tally = [successful |-> 0, failed |-> 5, total |-> 5]

\* what this.workingQuery can hold when saveState runs
Descriptors == {NullQuery} \cup {Descriptor(n) : n \in 1..NumCandidates}

C33_SortedOnly ==
  (pc = "fetch" /\ hist.response.kind = "list") =>
    (hist.response.sorted /\ hist.response.age < 1440)

\* the postComment calls of the run: one for each item in which processPost found a link
LinksFound == 1..Len(hist.commentLog)

\* C35: at the end of the item loop postsProcessed is the length of the
\* fetched list, items skipped as handled included, youtubeLinksFound is
\* the number of items in which a link was found, and matched <= scanned.
C35_Counts ==
  (pc \in {"save", "done"}) =>
    /\ counters.processedCount = Len(posts)
    /\ counters.youtubeLinksFound = Cardinality(LinksFound)
    /\ counters.youtubeLinksFound <= counters.processedCount

\* C34: fetchRecentPosts does not raise; for an item list it returns the
\* received elements that have an identifier, each as often as received,
\* newest createdAt first whatever the order received; for a request that
\* failed, a response without an item list or an exhausted probing it
\* returns the empty list.
C34_FetchTotal ==
  /\ [][ (pc \in {"introspect", "probe", "fetch"}) => (pc' \in {"probe", "fetch", "loop", "save"}) ]_vars
  /\ []((hist.fetched = "list" /\ pc \in {"loop", "save"}) =>
          /\ \A p \in Posts \cup {PostNoId} :
               Count(posts, p) = (IF p.id = "" THEN 0 ELSE Count(remoteItems, p))
          /\ \A n \in 1..(Len(posts) - 1) : posts[n].createdAt >= posts[n + 1].createdAt)
  /\ []((hist.fetched \in {"error", "invalid"} \/ hist.abort = "exhausted") => posts = << >>)

\* C34 witness: the response held an element without identifier in front
\* of an item; the item loop starts with a list of that item alone
C34_Witness ==
  /\ pc = "loop"
  /\ i = 1
  /\ hist.fetched = "list"
  /\ remoteItems = <<PostNoId, PostOne>>
  /\ posts = <<PostOne>>

\* C36: for a text with URLs of supported shapes extractYouTubeId returns
\* the identifier at position n where n is the leftmost URL of shape s and
\* s is the first shape in the order watch, youtu.be, embed, v, shorts that
\* occurs in the text -- also when URLs of later shapes stand to its left.
C36_PriorityOverPosition ==
  ExtractDone =>
    \A p \in 1..Len(YOUTUBE_PATTERNS), n \in 1..Len(link.text) :
      ( /\ link.text[n].shape = YOUTUBE_PATTERNS[p]
        /\ \A m \in 1..(n - 1) : link.text[m].shape # YOUTUBE_PATTERNS[p]
        /\ \A q \in 1..(p - 1), m \in 1..Len(link.text) : link.text[m].shape # YOUTUBE_PATTERNS[q] )
      => link.id = link.text[n].vid

\* C36 witness: a shorts URL stands before a watch URL with another
\* identifier; the identifier of the watch URL was returned
C36_Witness ==
  /\ ExtractDone
  /\ link.text = <<Url("shorts", VidB, << >>, TRUE), Url("watch", VidA, << >>, TRUE)>>
  /\ link.id = VidA

\* the items of the response were scored: an item list of more than one item
Scored(r) == r.kind = "list" /\ r.n > 1

\* C32 as stated: the candidate selected has the highest score among all the
\* candidates that returned an item list; a later candidate that scores
\* higher is preferred over the first acceptable one.
C32_HighestScore ==
  (pc = "fetch" /\ workingQuery.t = "descriptor" /\ workingQuery.v \in DOMAIN remote) =>
    \A j \in DOMAIN remote :
      Scored(remote[j]) => Score(remote[j]) <= Score(remote[workingQuery.v])

\* C32 amended: the candidate selected is the first, in list order, whose
\* response is an item list of more than one item that scores 60 or more or
\* is newest first with a newest item under 24 hours old; its score is at
\* least that of every scored candidate before it; the candidates after it
\* are not requested, whatever they would have scored.
C32_FirstAcceptable ==
  (pc = "fetch" /\ workingQuery.t = "descriptor" /\ remote # NoRemote) =>
    LET n == workingQuery.v
    IN /\ Scored(Remote(n))
       /\ Score(Remote(n)) >= 60 \/ (Remote(n).sorted /\ Remote(n).age < 1440)
       /\ \A j \in 1..(n - 1) :
            Scored(Remote(j)) =>
              /\ Score(Remote(j)) <= Score(Remote(n))
              /\ Score(Remote(j)) < 60
              /\ ~(Remote(j).sorted /\ Remote(j).age < 1440)
       /\ hist.requested = [j \in 1..n |-> j]

\* C32 witness: the first candidate was selected although the second would
\* have scored higher
C32_Witness ==
  /\ pc = "fetch"
  /\ workingQuery = Descriptor(1)
  /\ hist.requested = <<1>>
  /\ remote # NoRemote
  /\ Scored(remote[2])
  /\ Score(remote[2]) > Score(remote[1])

\* C37: the value a call of extractYouTubeId returns, on its own or in
\* processPost, is the value it returns for that text with untouched
\* patterns, whatever lastIndex values the calls before it left behind.
C37_CallHistoryFree ==
  (link.op \in {"extract", "process"} /\ link.done) => link.id = extractYouTubeId(link.text)

\* C37 witness: a call returned an identifier found by a pattern whose
\* lastIndex an earlier call had left behind a match
C37_Witness ==
  /\ link.op = "extract"
  /\ link.done
  /\ link.id # ""
  /\ link.entry[link.first.pattern] # 0

\* C39: in processPost, when extractYouTubeId returned an identifier, the
\* second scan matches with the same pattern at the same place, the branch
\* 'Video ID found but no URL extracted' is never taken, and the identifier
\* of the rewritten URL is the one in the original URL that was matched.
C39_SecondScanAgrees ==
  (link.op = "process" /\ link.done) =>
    /\ link.branch # "noUrl"
    /\ link.id # "" =>
         /\ link.branch = "found"
         /\ link.second = link.first
         /\ link.url.vid = link.id
         /\ link.result.v = link.url.vid

\* C39 witness: the content holds two watch URLs with different
\* identifiers, the pattern had been left behind a match by an earlier
\* call, and the URL is rewritten with the first identifier
C39_Witness ==
  /\ link.op = "process"
  /\ link.branch = "found"
  /\ link.text = <<Url("watch", VidA, << >>, TRUE), Url("watch", VidB, << >>, TRUE)>>
  /\ link.entry[1] # 0
  /\ link.result.v = VidA

\* the positions of a run body between this.isRunning = true and the finally
RunPositions ==
  {"load", "auth", "introspect", "probe", "fetch", "loop", "comment", "commentAlt", "publish",
   "tally", "save"}

\* C38: a call of run() while a run is in progress changes nothing -- no
\* position, no field of the instance, no request, no write --; a new run
\* body starts only from a call made when none is in progress; isRunning is
\* true at every position of a run body and false once run() has returned.
C38_Reentrancy ==
  /\ [][ (hist'.again = hist.again + 1 /\ isRunning) =>
           /\ hist' = [hist EXCEPT !.again = @ + 1]
           /\ UNCHANGED <<file, pc, exitCode, processedPosts, workingQuery, schemaInfo, isRunning,
                          headerSet, posts, i, k, pending, counters, writes, signals>> ]_vars
  /\ [][ (hist'.again = hist.again + 1 /\ pc' # pc) =>
           (pc = "done" /\ ~isRunning /\ pc' = "load" /\ isRunning') ]_vars
  /\ [](pc \in RunPositions => isRunning)
  /\ [](pc = "done" => ~isRunning)

\* C38 witness: run() was called again while the run was waiting for the
\* answer to a comment, and the run is still there
C38_Witness ==
  /\ hist.again = 1
  /\ pc = "comment"
  /\ isRunning
  /\ hist.steps # << >>
  /\ hist.netUsed

====
